---- MODULE Spec2Model ----
(***************************************************************************)
(* Token Creator API (src/server.js): the CREATE2 address derivation, the  *)
(* salt search of POST /calculate-address and the difficulty report of     *)
(* POST /validate-termination, run by one Node.js event loop.              *)
(*                                                                         *)
(* Strings are sequences of one-character strings.  JavaScript numbers     *)
(* that a caller can send as maxAttempts are kept in HALVES (the integer   *)
(* h stands for the number h/2), so that a fractional cap such as 2.5 is   *)
(* an input of the model.                                                   *)
(***************************************************************************)
EXTENDS Integers, Sequences, FiniteSets, TLC

(***************************************************************************)
(* Bounds of the model.                                                    *)
(***************************************************************************)
\* Attempts between two yields: 1000 in the source (server.js:90), scaled.
YieldEvery == 2
\* System-wide cap on attempts: 1000000 in the source (server.js:209), scaled.
SystemMaxAttempts == 11
\* Default of maxAttempts in the route: 100000 in the source (server.js:186),
\* scaled; like the source's value it lies below the system-wide cap.
DefaultMaxAttempts == 4
\* Random salts are numbered 1..NSalts (crypto.randomBytes(32) in the source).
NSalts == 3

(***************************************************************************)
(* Program constants.                                                      *)
(***************************************************************************)
MaxTerminationLength == 8
AddressHexLength == 40
SaltBytes == 32
HashBytes == 32
DeployerBytes == AddressHexLength \div 2

(***************************************************************************)
(* Characters and strings.                                                 *)
(***************************************************************************)
HexDigits == <<"0", "1", "2", "3", "4", "5", "6", "7",
               "8", "9", "a", "b", "c", "d", "e", "f">>

HexLower == {HexDigits[k] : k \in 1..16}

\* The letters the model's strings use, by their lower case.
UpperOf == [c \in {"a", "b", "c", "d", "e", "f", "g", "x"} |->
              CASE c = "a" -> "A" [] c = "b" -> "B" [] c = "c" -> "C"
                [] c = "d" -> "D" [] c = "e" -> "E" [] c = "f" -> "F"
                [] c = "g" -> "G" [] c = "x" -> "X"]

\* The characters of the model's strings.
Chars == HexLower \cup {UpperOf[c] : c \in DOMAIN UpperOf} \cup {"g", "x", ":"}

LowerOf ==
  [c \in Chars |->
     IF \E l \in DOMAIN UpperOf : UpperOf[l] = c
       THEN CHOOSE l \in DOMAIN UpperOf : UpperOf[l] = c
       ELSE c]

\* String.prototype.toLowerCase, one character.
LowerChar(c) == LowerOf[c]

\* String.prototype.toUpperCase, one character.
UpperChar(c) == IF c \in DOMAIN UpperOf THEN UpperOf[c] ELSE c

\* String.prototype.toLowerCase.
ToLowerCase(s) == [k \in 1..Len(s) |-> LowerChar(s[k])]

IsHexLowerChar(c) == c \in HexLower

\* s.replace(/[^0-9a-f]/g, '').
StripNonHex(s) == SelectSeq(s, IsHexLowerChar)

\* A variant of CleanTermination with a bug: the characters outside 0-9a-f
\* are stripped before the string is lower-cased.
CleanTerminationStripFirst(s) == ToLowerCase(StripNonHex(s))

\* desiredTermination.toLowerCase().replace(/[^0-9a-f]/g, '') (server.js:196, 321).
CleanTermination(s) == StripNonHex(ToLowerCase(s))

\* String.prototype.endsWith.
EndsWith(s, t) ==
  /\ Len(t) <= Len(s)
  /\ SubSeq(s, Len(s) - Len(t) + 1, Len(s)) = t

\* /^[0-9a-f]+$/.test(s).
MatchesHexRegex(s) == Len(s) > 0 /\ \A k \in 1..Len(s) : s[k] \in HexLower

DigitValueOf == [c \in HexLower |-> CHOOSE v \in 0..15 : HexDigits[v + 1] = c]

\* The value of a hex digit.
DigitValue(c) == DigitValueOf[c]

(***************************************************************************)
(* Request values.  A JSON body field is absent, a string or a number.     *)
(***************************************************************************)
Absent == [type |-> "absent"]
Str(s) == [type |-> "string", chars |-> s]
\* A number, in halves: Num(5) is 2.5.
Num(h) == [type |-> "number", halves |-> h]
Whole(n) == 2 * n

\* A 0x-prefixed hex string of `bytes` bytes; id tells two values of one
\* length apart.
Hex(bytes, id) == [type |-> "hex", bytes |-> bytes, id |-> id]

\* JavaScript's !v for the values of the model.
Falsy(v) ==
  \/ v.type = "absent"
  \/ v.type = "string" /\ v.chars = <<>>
  \/ v.type = "number" /\ v.halves = 0

(***************************************************************************)
(* calculateCREATE2Address (server.js:58-68).                              *)
(***************************************************************************)
\* ethers.utils.concat (arrayify) accepts a hex string of any whole number of
\* bytes and throws on any other string.
IsBytesLike(v) == v.type = "hex"

\* ethers.utils.concat(['0xff', deployer, salt, hash]): the buffer, by its
\* length and the values that fill it.
Concat(deployerAddress, salt, bytecodeHash) ==
  [len |-> 1 + deployerAddress.bytes + SaltBytes + bytecodeHash.bytes,
   seed |-> 5 * deployerAddress.id + 3 * deployerAddress.bytes + 7 * salt
            + 11 * bytecodeHash.id + bytecodeHash.bytes]

\* keccak256(buffer).slice(-40): the last 40 hex digits of the digest.  The
\* hash is modelled by a fixed mixing function of the buffer.
Keccak40(buf) ==
  [k \in 1..AddressHexLength |->
     LET x == buf.seed + buf.len
     IN  HexDigits[(((x * x + 3) * (k + 2) + ((k * k * x) \div 3) + 7 * k) % 16) + 1]]

\* ethers.utils.getAddress: the checksum casing, a fixed function of the
\* lower-case address that upper-cases some of its letters.
GetAddress(hex40) ==
  <<"0", "x">> \o
  [k \in 1..Len(hex40) |->
     IF (DigitValue(hex40[k]) + k) % 2 = 0 THEN UpperChar(hex40[k]) ELSE hex40[k]]

\* The address, or the exception ethers.utils.concat throws on a value that is
\* no hex string.  No length is checked.
calculateCREATE2Address(deployerAddress, salt, bytecodeHash) ==
  IF ~IsBytesLike(deployerAddress) \/ ~IsBytesLike(bytecodeHash)
    THEN [threw |-> TRUE, message |-> "invalid arrayify value"]
    ELSE [threw |-> FALSE,
          address |-> GetAddress(Keccak40(Concat(deployerAddress, salt, bytecodeHash)))]

(***************************************************************************)
(* Numbers of the search loop.                                             *)
(***************************************************************************)
\* A number of the loop: NaN, or a value in halves.
NaN == [nan |-> TRUE, halves |-> 0]
Number(h) == [nan |-> FALSE, halves |-> h]

DecimalDigits == {"0", "1", "2", "3", "4", "5", "6", "7", "8", "9"}
BinaryDigits == {"0", "1"}

\* Every character of s is in set.
AllIn(s, set) == \A k \in 1..Len(s) : s[k] \in set

\* The value of the digits s in the base given.
RECURSIVE DigitsValue(_, _)
DigitsValue(s, base) ==
  IF s = <<>> THEN 0
  ELSE base * DigitsValue(SubSeq(s, 1, Len(s) - 1), base)
         + DigitValue(LowerChar(s[Len(s)]))

\* 10^n.
RECURSIVE Pow10(_)
Pow10(n) == IF n = 0 THEN 1 ELSE 10 * Pow10(n - 1)

\* s is 0x, 0X, 0b or 0B (the letters given) and one digit or more of digits.
IsPrefixed(s, letters, digits) ==
  /\ Len(s) >= 3 /\ s[1] = "0" /\ s[2] \in letters
  /\ AllIn(ToLowerCase(SubSeq(s, 3, Len(s))), digits)

\* The places of s where an exponent begins: an e or E with decimal digits,
\* one or more, on each side.
ExponentPlaces(s) ==
  {k \in 2..(Len(s) - 1) :
     /\ s[k] \in {"e", "E"}
     /\ AllIn(SubSeq(s, 1, k - 1), DecimalDigits)
     /\ AllIn(SubSeq(s, k + 1, Len(s)), DecimalDigits)}

\* ToNumber of a string of the model's characters (it has no sign, point or
\* space): the empty string is 0; a decimal, hexadecimal or binary numeral,
\* or a decimal with an exponent, is its value; any other string is NaN.
\* Values are exact as far as TLC's 32-bit integers reach.
StringToNumber(s) ==
  IF s = <<>> THEN Number(0)
  ELSE IF AllIn(s, DecimalDigits) THEN Number(Whole(DigitsValue(s, 10)))
  ELSE IF IsPrefixed(s, {"x", "X"}, HexLower)
    THEN Number(Whole(DigitsValue(SubSeq(s, 3, Len(s)), 16)))
  ELSE IF IsPrefixed(s, {"b", "B"}, BinaryDigits)
    THEN Number(Whole(DigitsValue(SubSeq(s, 3, Len(s)), 2)))
  ELSE IF ExponentPlaces(s) # {}
    THEN LET k == CHOOSE k \in ExponentPlaces(s) : TRUE
         IN  Number(Whole(DigitsValue(SubSeq(s, 1, k - 1), 10)
                          * Pow10(DigitsValue(SubSeq(s, k + 1, Len(s)), 10))))
  ELSE NaN

\* ToNumber of the maxAttempts a body carries, as Math.min converts it: a
\* number is itself, a string is converted.
ToNumber(v) ==
  IF v.type = "number" THEN Number(v.halves)
  ELSE IF v.type = "string" THEN StringToNumber(v.chars)
  ELSE NaN

\* Math.min.
MathMin(a, b) ==
  IF a.nan \/ b.nan THEN NaN ELSE IF a.halves < b.halves THEN a ELSE b

\* attempts < maxAttempts, attempts an integer.
LessThan(attempts, maxAttempts) ==
  ~maxAttempts.nan /\ Whole(attempts) < maxAttempts.halves

\* Math.min(maxAttempts, 1000000) with the route's default (server.js:186, 209).
EffectiveCap(maxAttempts) ==
  MathMin(IF maxAttempts.type = "absent" THEN Number(Whole(DefaultMaxAttempts))
                                         ELSE ToNumber(maxAttempts),
          Number(Whole(SystemMaxAttempts)))

(***************************************************************************)
(* Responses.                                                              *)
(***************************************************************************)
NoResponse == [status |-> 0]

RequiredMessage == "deployerAddress, bytecodeHash, and desiredTermination are required"
InvalidTerminationMessage == "Invalid termination. Must be 1-8 hexadecimal characters."
ExhaustedMessage == "Maximum attempts reached without finding suitable salt"
TerminationRequiredMessage == "termination is required"
\* The TypeError of calling toLowerCase on a value that is no string, as
\* each route's catch reports it (server.js:196, 222 and 321, 363).
CalculateTypeErrorMessage == "desiredTermination.toLowerCase is not a function"
ValidateTypeErrorMessage == "termination.toLowerCase is not a function"

BadRequest(message) == [status |-> 400, success |-> FALSE, error |-> message]
ServerError(message) == [status |-> 500, success |-> FALSE, error |-> message]

\* res.json({success: true, ...result, termination: cleanTermination}).
MiningResponse(salt, address, attempts, cleanTermination) ==
  [status |-> 200, success |-> TRUE, salt |-> salt, address |-> address,
   attempts |-> attempts, termination |-> cleanTermination]

\* 16^n.
RECURSIVE Pow16(_)
Pow16(n) == IF n = 0 THEN 1 ELSE 16 * Pow16(n - 1)

\* A variant of Difficulty with a bug: the thresholds are tested with <=.
DifficultyInclusive(cleaned) ==
  LET attemptsOver16 == Pow16(Len(cleaned) - 1)
  IN  IF attemptsOver16 <= 256 \div 16 THEN <<"Very Easy", "Instant">>
      ELSE IF attemptsOver16 <= 4096 \div 16 THEN <<"Easy", "Few seconds">>
      ELSE IF attemptsOver16 <= 65536 \div 16 THEN <<"Medium", "Few minutes">>
      ELSE IF attemptsOver16 <= 1048576 \div 16 THEN <<"Hard", "Few hours">>
      ELSE <<"Very Hard", "Days or weeks">>

\* A variant of Difficulty with a bug: the answers of two branches are
\* exchanged.
DifficultySwapped(cleaned) ==
  LET attemptsOver16 == Pow16(Len(cleaned) - 1)
  IN  IF attemptsOver16 < 256 \div 16 THEN <<"Very Easy", "Instant">>
      ELSE IF attemptsOver16 < 4096 \div 16 THEN <<"Easy", "Few seconds">>
      ELSE IF attemptsOver16 < 65536 \div 16 THEN <<"Hard", "Few hours">>
      ELSE IF attemptsOver16 < 1048576 \div 16 THEN <<"Medium", "Few minutes">>
      ELSE <<"Very Hard", "Days or weeks">>

\* The tier and the time estimate of a valid termination (server.js:328-347).
\* Math.pow(16, 8) exceeds TLC's 32-bit integers, so the comparison
\* attempts < 256 is made on attempts / 16 = 16^(length - 1), which is exact
\* for a length of 1 or more, against 256 / 16; and so on for each threshold.
Difficulty(cleaned) ==
  LET attemptsOver16 == Pow16(Len(cleaned) - 1)
  IN  IF attemptsOver16 < 256 \div 16 THEN <<"Very Easy", "Instant">>
      ELSE IF attemptsOver16 < 4096 \div 16 THEN <<"Easy", "Few seconds">>
      ELSE IF attemptsOver16 < 65536 \div 16 THEN <<"Medium", "Few minutes">>
      ELSE IF attemptsOver16 < 1048576 \div 16 THEN <<"Hard", "Few hours">>
      ELSE <<"Very Hard", "Days or weeks">>

\* A variant of IsValidTermination with a bug: the limit is tested with <.
IsValidTerminationStrict(cleaned) ==
  MatchesHexRegex(cleaned) /\ Len(cleaned) > 0 /\ Len(cleaned) < MaxTerminationLength

\* const isValid = ... (server.js:322).
IsValidTermination(cleaned) ==
  MatchesHexRegex(cleaned) /\ Len(cleaned) > 0 /\ Len(cleaned) <= MaxTerminationLength

\* The body of the /validate-termination handler (server.js:310-366).
ValidateResponse(termination) ==
  IF Falsy(termination) THEN BadRequest(TerminationRequiredMessage)
  ELSE IF termination.type # "string" THEN ServerError(ValidateTypeErrorMessage)
  ELSE LET cleaned == CleanTermination(termination.chars)
           isValid == IsValidTermination(cleaned)
           tier == IF isValid THEN Difficulty(cleaned) ELSE <<"Unknown", "Unknown">>
       IN  [status |-> 200, success |-> TRUE, valid |-> isValid, cleaned |-> cleaned,
            difficulty |-> tier[1], estimatedTime |-> tier[2],
            maxLength |-> MaxTerminationLength]

\* A variant of CalculateRejection with a bug: the length limit is not tested.
CalculateRejectionNoLimit(b) ==
  IF Falsy(b.deployerAddress) \/ Falsy(b.bytecodeHash) \/ Falsy(b.termination)
    THEN BadRequest(RequiredMessage)
  ELSE IF b.termination.type # "string" THEN ServerError(CalculateTypeErrorMessage)
  ELSE IF Len(CleanTermination(b.termination.chars)) = 0
    THEN BadRequest(InvalidTerminationMessage)
    ELSE NoResponse

\* A variant of CalculateRejection with a bug: the raw termination's length
\* is tested instead of the cleaned one's.
CalculateRejectionRaw(b) ==
  IF Falsy(b.deployerAddress) \/ Falsy(b.bytecodeHash) \/ Falsy(b.termination)
    THEN BadRequest(RequiredMessage)
  ELSE IF b.termination.type # "string" THEN ServerError(CalculateTypeErrorMessage)
  ELSE IF Len(b.termination.chars) = 0 \/ Len(b.termination.chars) > MaxTerminationLength
    THEN BadRequest(InvalidTerminationMessage)
    ELSE NoResponse

\* The checks of the /calculate-address handler before the search
\* (server.js:186-202): the response that ends the request, or NoResponse when
\* the handler goes on to findSaltForTermination.
CalculateRejection(b) ==
  IF Falsy(b.deployerAddress) \/ Falsy(b.bytecodeHash) \/ Falsy(b.termination)
    THEN BadRequest(RequiredMessage)
  ELSE IF b.termination.type # "string" THEN ServerError(CalculateTypeErrorMessage)
  ELSE LET cleanTermination == CleanTermination(b.termination.chars)
       IN  IF Len(cleanTermination) = 0 \/ Len(cleanTermination) > MaxTerminationLength
             THEN BadRequest(InvalidTerminationMessage)
             ELSE NoResponse

(***************************************************************************)
(* The requests the model sends.                                           *)
(***************************************************************************)
Requests == {1, 2, 3}

Deployer == Hex(DeployerBytes, 1)
ShortDeployer == Hex(2, 1)
TextDeployer == Str(<<"g">>)
BytecodeHash == Hex(HashBytes, 1)

\* "E:a0", "0x3", "E7F6BF23": terminations that pass the validation.
ValidTerminations ==
  {Str(<<"E", ":", "a", "0">>), Str(<<"0", "x", "3">>),
   Str(<<"E", "7", "F", "6", "B", "F", "2", "3">>)}

\* Missing, "", a number, "g:" (empty once cleaned), and nine hex digits.
InvalidTerminations ==
  {Absent, Str(<<>>), Num(10), Str(<<"g", ":">>),
   Str(<<"1", "2", "3", "4", "5", "6", "7", "8", "9">>)}

\* -1, 0, 0.5, 1, 2.5, the system-wide cap less 0.5, the cap, the cap plus 1,
\* a string that is no numeral, the numeral strings "3" and "0x1" (3 and 1),
\* and no value (the default).
MaxAttemptsValues ==
  {Num(h) : h \in {-2, 0, 1, 2, 5, Whole(SystemMaxAttempts) - 1,
                   Whole(SystemMaxAttempts), Whole(SystemMaxAttempts) + 2}}
    \cup {Str(<<"x">>), Str(<<"3">>), Str(<<"0", "x", "1">>), Absent}

CalculateBody(d, h, t, m) ==
  [route |-> "calculate-address", deployerAddress |-> d, bytecodeHash |-> h,
   termination |-> t, maxAttempts |-> m]

ValidateBody(t) ==
  [route |-> "validate-termination", deployerAddress |-> Absent,
   bytecodeHash |-> Absent, termination |-> t, maxAttempts |-> Absent]

NoBody ==
  [route |-> "none", deployerAddress |-> Absent, bytecodeHash |-> Absent,
   termination |-> Absent, maxAttempts |-> Absent]

\* The bodies of request 1: every combination of the four fields' shapes with
\* the default cap, and every cap with the two short valid terminations.
WideBodies ==
  {CalculateBody(d, h, t, Absent) :
     d \in {Deployer, ShortDeployer, TextDeployer, Absent},
     h \in {BytecodeHash, Absent},
     t \in ValidTerminations \cup InvalidTerminations}
    \cup {CalculateBody(Deployer, BytecodeHash, t, m) :
            t \in {Str(<<"E", ":", "a", "0">>), Str(<<"0", "x", "3">>)},
            m \in MaxAttemptsValues}
    \cup {ValidateBody(t) : t \in ValidTerminations \cup InvalidTerminations}

\* The bodies of the other requests, which are there to run beside request 1:
\* two reports, a rejected search, and searches that match or run to their cap.
NarrowBodies ==
  {ValidateBody(Str(<<"E", ":", "a", "0">>)), ValidateBody(Str(<<"g", ":">>)),
   CalculateBody(Deployer, BytecodeHash, Str(<<"g", ":">>), Absent),
   CalculateBody(Deployer, BytecodeHash, Str(<<"E", ":", "a", "0">>), Absent),
   CalculateBody(Deployer, BytecodeHash, Str(<<"0", "x", "3">>), Num(5)),
   CalculateBody(Deployer, BytecodeHash, Str(<<"0", "x", "3">>),
                 Num(Whole(SystemMaxAttempts) + 2))}

\* Request 3 is sent only in the runs on queued connections (QueueBodies).
Bodies(r) == IF r = 1 THEN WideBodies ELSE IF r = 2 THEN NarrowBodies ELSE {}

(***************************************************************************)
(* State.                                                                  *)
(***************************************************************************)
VARIABLES
  body,         \* body[r]: the JSON body of request r, NoBody before it arrives
  st,           \* st[r]: "idle", "connecting", "arrived", "running", "yielded"
                \* or "done"
  termination,  \* findSaltForTermination's local `termination` of call r
  maxAttempts,  \* findSaltForTermination's parameter `maxAttempts` of call r
  attempts,     \* findSaltForTermination's local `attempts` of call r
  resp,         \* resp[r]: the response sent for request r, NoResponse before
  running,      \* the request whose code holds the thread, 0 when none does
  phase,        \* the event loop's phase: "wait", "poll" or "check"
  ready,        \* the descriptors the current poll phase found ready and
                \* has still to serve: requests to read, the listening socket
  checkQ,       \* the immediates the current check phase runs, in order
  immediates,   \* the immediates queued for the next check phase
  backlog,      \* the requests whose new connection waits to be accepted, in
                \* the order they came
  draws,        \* draws[r]: salts call r has drawn                    (history)
  hits,         \* hits[r]: drawn salts whose address matched          (history)
  sinceYield,   \* attempts of call r since it last ceded the thread   (history)
  yields,       \* yields[r]: times call r ceded the thread            (history)
  cancelledAt,  \* the draws of call r made when its client disconnected, -1 if
                \* it has not
  waited,       \* waited[r][m]: attempts of call m while r was pending (history)
  ahead,        \* ahead[r]: connections queued before that of r when it came,
                \* -1 for a request on an open connection           (history)
  solo          \* solo[r]: call r run alone with the salts it drew  (history)

vars == <<body, st, termination, maxAttempts, attempts, resp, running, phase,
          ready, checkQ, immediates, draws, hits, sinceYield, yields,
          cancelledAt, waited, solo, backlog, ahead>>

loopVars == <<phase, ready, checkQ, immediates>>
netVars == <<backlog, ahead>>
callVars == <<termination, maxAttempts, attempts>>
historyVars == <<draws, hits, sinceYield, yields, waited, solo>>

\* The locals of a call of findSaltForTermination that has not begun.
SoloNone ==
  [termination |-> <<>>, maxAttempts |-> Number(0), attempts |-> 0,
   resp |-> NoResponse]

Init ==
  /\ body = [r \in Requests |-> NoBody]
  /\ st = [r \in Requests |-> "idle"]
  /\ termination = [r \in Requests |-> <<>>]
  /\ maxAttempts = [r \in Requests |-> Number(0)]
  /\ attempts = [r \in Requests |-> 0]
  /\ resp = [r \in Requests |-> NoResponse]
  /\ running = 0
  /\ phase = "wait"
  /\ ready = {}
  /\ checkQ = <<>>
  /\ immediates = <<>>
  /\ draws = [r \in Requests |-> 0]
  /\ hits = [r \in Requests |-> 0]
  /\ sinceYield = [r \in Requests |-> 0]
  /\ yields = [r \in Requests |-> 0]
  /\ cancelledAt = [r \in Requests |-> -1]
  /\ waited = [r \in Requests |-> [m \in Requests |-> 0]]
  /\ solo = [r \in Requests |-> SoloNone]
  /\ backlog = <<>>
  /\ ahead = [r \in Requests |-> -1]

(***************************************************************************)
(* The environment: requests arrive and clients disconnect at any moment,  *)
(* also while a handler holds the thread.                                  *)
(***************************************************************************)
\* What the loop has to do for a request that reaches the server: on a new
\* connection, accept the connection in one poll phase and read the request
\* in a later one ("connecting"); on a connection that is open already, only
\* read it ("arrived").
ArrivalStates == {"connecting", "arrived"}

\* Request r is sent: on a new connection, which joins the connections that
\* wait to be accepted, or on an open one.
Sent(r, a) ==
  /\ st' = [st EXCEPT ![r] = a]
  /\ IF a = "connecting"
       THEN /\ backlog' = Append(backlog, r)
            /\ ahead' = [ahead EXCEPT ![r] = Len(backlog)]
       ELSE /\ ahead' = [ahead EXCEPT ![r] = -1]
            /\ UNCHANGED backlog

\* Request r reaches the server's socket.
Arrive(r) ==
  /\ st[r] = "idle"
  /\ \E b \in Bodies(r) : body' = [body EXCEPT ![r] = b]
  /\ \E a \in ArrivalStates : Sent(r, a)
  /\ UNCHANGED <<callVars, resp, running, loopVars, historyVars, cancelledAt>>

\* The client of r disconnects while its call is in the search.  The source
\* registers no listener for it and findSaltForTermination takes no signal.
Cancel(r) ==
  /\ st[r] \in {"running", "yielded"}
  /\ cancelledAt[r] = -1
  /\ cancelledAt' = [cancelledAt EXCEPT ![r] = draws[r]]
  /\ UNCHANGED <<body, st, callVars, resp, running, loopVars, historyVars,
                 netVars>>

(***************************************************************************)
(* The event loop: a poll phase that runs the callbacks of the descriptors *)
(* that were ready when it began (the handlers of the requests that had    *)
(* arrived, and one accept when a connection waited), then a check phase   *)
(* that runs the immediates queued before it began (setImmediate,          *)
(* server.js:91).  The callbacks of one poll phase run in the order in     *)
(* which their descriptors became ready, one after the other, a handler    *)
(* with its whole first batch; the model leaves that order open.           *)
(***************************************************************************)
\* The socket the server listens on (app.listen), as a descriptor.
ListenSocket == 0

\* The requests whose bytes wait to be read on an accepted connection.
Pending == {r \in Requests : st[r] = "arrived"}

\* Request r waits for its handler to run.
IsWaiting(r) == st[r] \in ArrivalStates

\* The loop polls for I/O: it picks up the requests it can read, and the
\* listening socket when a connection waits to be accepted.
Poll ==
  /\ phase = "wait" /\ running = 0
  /\ Pending # {} \/ backlog # <<>> \/ immediates # <<>>
  /\ ready' = Pending \cup (IF backlog # <<>> THEN {ListenSocket} ELSE {})
  /\ phase' = "poll"
  /\ UNCHANGED <<body, st, callVars, resp, running, checkQ, immediates,
                 historyVars, cancelledAt, netVars>>

\* The callback of the listening socket: the loop accepts one connection, the
\* first that waits, between two handlers of the poll phase; a later poll
\* phase reads its request.
Accept ==
  /\ phase = "poll" /\ running = 0 /\ ListenSocket \in ready
  /\ st' = [st EXCEPT ![Head(backlog)] = "arrived"]
  /\ backlog' = Tail(backlog)
  /\ ready' = ready \ {ListenSocket}
  /\ UNCHANGED <<body, callVars, resp, running, phase, checkQ, immediates,
                 historyVars, cancelledAt, ahead>>

\* The poll phase is over: the check phase takes the queued immediates.
EnterCheck ==
  /\ phase = "poll" /\ running = 0 /\ ready = {}
  /\ checkQ' = immediates
  /\ immediates' = <<>>
  /\ phase' = "check"
  /\ UNCHANGED <<body, st, callVars, resp, running, ready, historyVars, cancelledAt,
                 netVars>>

\* The check phase is over: the loop goes back to polling.
LeaveCheck ==
  /\ phase = "check" /\ running = 0 /\ checkQ = <<>>
  /\ phase' = "wait"
  /\ UNCHANGED <<body, st, callVars, resp, running, ready, checkQ, immediates,
                 historyVars, cancelledAt, netVars>>

\* Request r is handled: no attempt made from now on counts as waited for.
Handled(r) == [waited EXCEPT ![r] = [m \in Requests |-> 0]]

\* Request r is handled: how it came is of no account from now on.
Forgotten(r) == [ahead EXCEPT ![r] = -1]

(***************************************************************************)
(* POST /validate-termination (server.js:310-366).                         *)
(***************************************************************************)
HandleValidate(r) ==
  /\ phase = "poll" /\ running = 0 /\ r \in ready
  /\ body[r].route = "validate-termination"
  /\ resp' = [resp EXCEPT ![r] = ValidateResponse(body[r].termination)]
  /\ st' = [st EXCEPT ![r] = "done"]
  /\ ready' = ready \ {r}
  /\ waited' = Handled(r)
  /\ ahead' = Forgotten(r)
  /\ UNCHANGED <<body, callVars, running, phase, checkQ, immediates,
                 draws, hits, sinceYield, yields, cancelledAt, solo, backlog>>

(***************************************************************************)
(* POST /calculate-address (server.js:184-225).                            *)
(***************************************************************************)
\* A variant of Frame with a bug: `attempts` is declared at module level, so
\* every call counts in the same variable.
FrameShared(r) == 1

\* The invocation whose frame holds the `attempts` that call r reads and
\* writes: `let attempts = 0` is a local of findSaltForTermination, so each
\* call has its own (server.js:72).
Frame(r) == r

\* The handler of a request with body b run with no other request in the
\* server, up to the first iteration of the loop (server.js:186-210, 70-72).
SoloStart(b) ==
  LET rejection == CalculateRejection(b)
  IN  IF rejection # NoResponse
        THEN [SoloNone EXCEPT !.resp = rejection]
        ELSE [termination |-> ToLowerCase(CleanTermination(b.termination.chars)),
              maxAttempts |-> EffectiveCap(b.maxAttempts),
              attempts |-> 0,
              resp |-> NoResponse]

\* The handler up to the call of findSaltForTermination: it answers a body
\* that fails its checks, and otherwise enters the search with the cleaned
\* termination and the clamped cap (server.js:70-72, 205-210).
HandleCalculate(r) ==
  /\ phase = "poll" /\ running = 0 /\ r \in ready
  /\ body[r].route = "calculate-address"
  /\ ready' = ready \ {r}
  /\ waited' = Handled(r)
  /\ ahead' = Forgotten(r)
  /\ LET rejection == CalculateRejection(body[r])
     IN  IF rejection # NoResponse
           THEN /\ resp' = [resp EXCEPT ![r] = rejection]
                /\ st' = [st EXCEPT ![r] = "done"]
                /\ UNCHANGED <<callVars, running>>
           ELSE /\ termination' = [termination EXCEPT
                     ![r] = ToLowerCase(CleanTermination(body[r].termination.chars))]
                /\ maxAttempts' = [maxAttempts EXCEPT
                     ![r] = EffectiveCap(body[r].maxAttempts)]
                /\ attempts' = [attempts EXCEPT ![Frame(r)] = 0]
                /\ st' = [st EXCEPT ![r] = "running"]
                /\ running' = r
                /\ UNCHANGED resp
  /\ solo' = [solo EXCEPT ![r] = SoloStart(body[r])]
  /\ UNCHANGED <<body, phase, checkQ, immediates, draws, hits, sinceYield,
                 yields, cancelledAt, backlog>>

(***************************************************************************)
(* findSaltForTermination (server.js:70-96), one loop iteration a step.    *)
(***************************************************************************)
\* A variant of Matches with a bug: the comparison leaves out the
\* termination's first character.
MatchesTail(address, t) == EndsWith(ToLowerCase(address), Tail(t))

\* A variant of Matches with a bug: the checksummed address is compared
\* without being lower-cased.
MatchesCased(address, t) == EndsWith(address, t)

\* address.toLowerCase().endsWith(termination) (server.js:79).
Matches(address, t) == EndsWith(ToLowerCase(address), t)

\* The last Len(t) characters of the address, letters in lower case, are t.
\* This is what a mined address is required to satisfy; the history counts
\* the drawn salts by it, whatever the loop's own comparison does.
SuffixIs(address, t) ==
  /\ Len(t) <= Len(address)
  /\ \A k \in 1..Len(t) : LowerChar(address[Len(address) - Len(t) + k]) = t[k]

\* The attempts of call m that the pending requests wait through.
CountWaiting(m) ==
  [r \in Requests |->
     IF IsWaiting(r) /\ r # m
       THEN [waited[r] EXCEPT ![m] = @ + 1]
       ELSE waited[r]]

\* The addresses of the model's deployers, salts and hashes, computed once.
Derived ==
  [d \in {Deployer, ShortDeployer, TextDeployer},
   salt \in 1..NSalts, h \in {BytecodeHash} |-> calculateCREATE2Address(d, salt, h)]

\* A variant of ShouldYield with a bug: the batch size is mistyped.
ShouldYieldLate(n) == n % (YieldEvery + 1) = 0

\* A variant of ShouldYield with a bug: the loop never awaits.
ShouldYieldNever(n) == FALSE

\* attempts % 1000 === 0 (server.js:90).
ShouldYield(n) == n % YieldEvery = 0

\* One iteration of the while loop (server.js:74-92) of a call with body b
\* and locals s, run with no other request in the server, with the salt drawn.
SoloDraw(b, s, salt) ==
  LET derived == Derived[b.deployerAddress, salt, b.bytecodeHash]
  IN  IF derived.threw
        THEN [s EXCEPT !.resp = ServerError(derived.message)]
      ELSE IF Matches(derived.address, s.termination)
        THEN [s EXCEPT !.resp =
                MiningResponse(salt, derived.address, s.attempts + 1,
                               CleanTermination(b.termination.chars))]
      ELSE [s EXCEPT !.attempts = @ + 1]

\* The response of a call with locals s run alone, once its loop has ended:
\* the one an iteration produced, or the error thrown after the loop
\* (server.js:95, 218-223).
SoloResponse(s) ==
  IF s.resp # NoResponse THEN s.resp ELSE ServerError(ExhaustedMessage)

\* One iteration of the while loop of call r with the salt drawn.
AttemptWith(r, salt) ==
  LET derived == Derived[body[r].deployerAddress, salt, body[r].bytecodeHash]
      hit == ~derived.threw /\ Matches(derived.address, termination[r])
      yield == ~derived.threw /\ ~hit /\ ShouldYield(attempts[Frame(r)] + 1)
  IN  /\ draws' = [draws EXCEPT ![r] = @ + 1]
      /\ solo' = [solo EXCEPT ![r] = SoloDraw(body[r], solo[r], salt)]
      /\ hits' = [hits EXCEPT ![r] =
           IF ~derived.threw /\ SuffixIs(derived.address, termination[r])
             THEN @ + 1 ELSE @]
      /\ waited' = CountWaiting(r)
      /\ IF derived.threw
           THEN \* the exception reaches the handler's catch (server.js:218-223)
                /\ resp' = [resp EXCEPT ![r] = ServerError(derived.message)]
                /\ st' = [st EXCEPT ![r] = "done"]
                /\ running' = 0
                /\ sinceYield' = [sinceYield EXCEPT ![r] = @ + 1]
                /\ UNCHANGED <<attempts, immediates, yields>>
         ELSE IF hit
           THEN \* return {salt, address, attempts: attempts + 1}
                /\ resp' = [resp EXCEPT ![r] =
                     MiningResponse(salt, derived.address, attempts[Frame(r)] + 1,
                                    CleanTermination(body[r].termination.chars))]
                /\ st' = [st EXCEPT ![r] = "done"]
                /\ running' = 0
                /\ sinceYield' = [sinceYield EXCEPT ![r] = @ + 1]
                /\ UNCHANGED <<attempts, immediates, yields>>
         ELSE /\ attempts' = [attempts EXCEPT ![Frame(r)] = @ + 1]
              /\ UNCHANGED resp
              /\ IF yield
                   THEN \* await new Promise(resolve => setImmediate(resolve))
                        /\ st' = [st EXCEPT ![r] = "yielded"]
                        /\ immediates' = Append(immediates, r)
                        /\ running' = 0
                        /\ sinceYield' = [sinceYield EXCEPT ![r] = 0]
                        /\ yields' = [yields EXCEPT ![r] = @ + 1]
                   ELSE /\ sinceYield' = [sinceYield EXCEPT ![r] = @ + 1]
                        /\ UNCHANGED <<st, immediates, running, yields>>

Attempt(r) ==
  /\ running = r
  /\ LessThan(attempts[Frame(r)], maxAttempts[r])
  /\ \E salt \in 1..NSalts : AttemptWith(r, salt)
  /\ UNCHANGED <<body, termination, maxAttempts, phase, ready, checkQ, cancelledAt,
                 netVars>>

\* The loop condition fails: throw new Error('Maximum attempts reached ...'),
\* which the handler's catch turns into the response (server.js:95, 218-223).
Exhaust(r) ==
  /\ running = r
  /\ ~LessThan(attempts[Frame(r)], maxAttempts[r])
  /\ resp' = [resp EXCEPT ![r] = ServerError(ExhaustedMessage)]
  /\ st' = [st EXCEPT ![r] = "done"]
  /\ running' = 0
  /\ UNCHANGED <<body, callVars, loopVars, historyVars, cancelledAt, netVars>>

\* The check phase runs the immediate of call r: the await returns and the
\* loop goes on.
Resume(r) ==
  /\ phase = "check" /\ running = 0
  /\ checkQ # <<>> /\ Head(checkQ) = r
  /\ checkQ' = Tail(checkQ)
  /\ st' = [st EXCEPT ![r] = "running"]
  /\ running' = r
  /\ UNCHANGED <<body, callVars, resp, phase, ready, immediates, historyVars,
                 cancelledAt, netVars>>

Next ==
  \/ \E r \in Requests : Arrive(r)
  \/ \E r \in Requests : Cancel(r)
  \/ Poll
  \/ Accept
  \/ EnterCheck
  \/ LeaveCheck
  \/ \E r \in Requests : HandleValidate(r)
  \/ \E r \in Requests : HandleCalculate(r)
  \/ \E r \in Requests : Attempt(r)
  \/ \E r \in Requests : Exhaust(r)
  \/ \E r \in Requests : Resume(r)

Spec == Init /\ [][Next]_vars

\* The steps of the server itself: the event loop runs whatever is runnable.
ServerStep ==
  \/ Poll
  \/ Accept
  \/ EnterCheck
  \/ LeaveCheck
  \/ \E r \in Requests : HandleValidate(r)
  \/ \E r \in Requests : HandleCalculate(r)
  \/ \E r \in Requests : Attempt(r)
  \/ \E r \in Requests : Exhaust(r)
  \/ \E r \in Requests : Resume(r)

\* The server with clients that stay connected (a disconnect changes nothing
\* the code reads), under an event loop that keeps running what is runnable.
FairNext ==
  \/ \E r \in Requests : Arrive(r)
  \/ ServerStep

FairSpec == Init /\ [][FairNext]_vars /\ WF_vars(ServerStep)

(***************************************************************************)
(* The two routes on raw termination strings.  A second set of requests:   *)
(* request 1 asks /validate-termination and request 2 either route, with   *)
(* terminations of every length from 0 to one past the limit, written in   *)
(* several ways that clean to the same digits.                             *)
(***************************************************************************)
\* The last characters of the address that salt 3 gives, in mixed case.
RawPattern == <<"7", "3", "E", "7", "f", "6", "B", "F", "2", "3">>

\* String.prototype.slice(-n).
Suffix(s, n) == SubSeq(s, Len(s) - n + 1, Len(s))

\* String.prototype.toUpperCase.
ToUpperCase(s) == [k \in 1..Len(s) |-> UpperChar(s[k])]

\* The string with a colon after each character, as in "D:E:A:D:".
Separated(s) == [k \in 1..(2 * Len(s)) |-> IF k % 2 = 1 THEN s[(k + 1) \div 2] ELSE ":"]

\* The ways a client writes the digits s.
Written(s) ==
  {s, ToUpperCase(s), ToLowerCase(s), Separated(s), <<"0", "x">> \o s,
   <<"G">> \o s \o <<"g">>}

RawStrings ==
  UNION {Written(Suffix(RawPattern, n)) : n \in 0..(MaxTerminationLength + 1)}

RawTerminations ==
  {Str(s) : s \in RawStrings} \cup ValidTerminations \cup InvalidTerminations

RawBodies(r) ==
  IF r = 1
    THEN {ValidateBody(t) : t \in RawTerminations}
  ELSE IF r = 2
    THEN {CalculateBody(Deployer, BytecodeHash, t, Absent) : t \in RawTerminations}
           \cup {ValidateBody(Str(Suffix(RawPattern, n))) :
                   n \in 0..(MaxTerminationLength + 1)}
  ELSE {}

ArriveRaw(r) ==
  /\ st[r] = "idle"
  /\ \E b \in RawBodies(r) : body' = [body EXCEPT ![r] = b]
  /\ \E a \in ArrivalStates : Sent(r, a)
  /\ UNCHANGED <<callVars, resp, running, loopVars, historyVars, cancelledAt>>

RawNext ==
  \/ \E r \in Requests : ArriveRaw(r)
  \/ ServerStep

RawSpec == Init /\ [][RawNext]_vars

(***************************************************************************)
(* Requests behind a search and behind one another.  A third set of        *)
(* requests: request 1 asks for a search that runs to the system-wide cap  *)
(* or for one that can match, requests 2 and 3 for a report or for a short *)
(* search, each on a new connection or on an open one, so that a request   *)
(* can come with the connection of another queued ahead of its own while   *)
(* a search runs.                                                          *)
(***************************************************************************)
QueueBodies(r) ==
  IF r = 1
    THEN {CalculateBody(Deployer, BytecodeHash, Str(<<"0", "x", "3">>),
                        Num(Whole(SystemMaxAttempts) + 2)),
          CalculateBody(Deployer, BytecodeHash, Str(<<"E", ":", "a", "0">>), Absent)}
    ELSE {ValidateBody(Str(<<"E", ":", "a", "0">>)),
          CalculateBody(Deployer, BytecodeHash, Str(<<"0", "x", "3">>), Num(5))}

ArriveQueued(r) ==
  /\ st[r] = "idle"
  /\ \E b \in QueueBodies(r) : body' = [body EXCEPT ![r] = b]
  /\ \E a \in ArrivalStates : Sent(r, a)
  /\ UNCHANGED <<callVars, resp, running, loopVars, historyVars, cancelledAt>>

QueueNext ==
  \/ \E r \in Requests : ArriveQueued(r)
  \/ ServerStep

\* The server under an event loop that keeps running what is runnable.
QueueSpec == Init /\ [][QueueNext]_vars /\ WF_vars(ServerStep)

(***************************************************************************)
(* What the requests came to.                                              *)
(***************************************************************************)
IsCalculate(r) == body[r].route = "calculate-address"
IsValidate(r) == body[r].route = "validate-termination"
Answered(r) == resp[r] # NoResponse

\* The request ended with a MiningResult.
IsMiningResult(r) == IsCalculate(r) /\ resp[r].status = 200

\* The request ended with SearchExhausted.
IsSearchExhausted(r) ==
  IsCalculate(r) /\ resp[r].status = 500 /\ resp[r].error = ExhaustedMessage

\* The request ended with InvalidInput.
IsInvalidInput(r) == resp[r].status = 400

\* The call of request r has entered findSaltForTermination.
Searched(r) == IsCalculate(r) /\ CalculateRejection(body[r]) = NoResponse
                 /\ st[r] \in {"running", "yielded", "done"}

\* The cap in force for the call of request r: the body's maxAttempts (the
\* default when it has none) clamped to the system-wide maximum.
CapInForce(r) == EffectiveCap(body[r].maxAttempts)

(***************************************************************************)
(* C1.  Every mining result's address, in lower case, ends with exactly    *)
(* the normalized termination T of the request: its last Len(T) characters *)
(* are T, whatever the deployer, the hash and the salts drawn.             *)
(***************************************************************************)
C1_TerminationCorrect ==
  \A r \in Requests :
    IsMiningResult(r) =>
      LET T == CleanTermination(body[r].termination.chars)
          a == ToLowerCase(resp[r].address)
      IN  /\ Len(T) \in 1..MaxTerminationLength
          /\ Len(a) = AddressHexLength + 2
          /\ \A k \in 1..Len(T) : a[Len(a) - Len(T) + k] = T[k]
          /\ resp[r].termination = T

\* A result for the eight-character termination, whose matched suffix the
\* checksum casing had put partly in upper case.
C1_Witness ==
  \E r \in Requests :
    /\ IsMiningResult(r)
    /\ Len(resp[r].termination) = MaxTerminationLength
    /\ \E k \in 1..MaxTerminationLength :
         resp[r].address[AddressHexLength + 2 - MaxTerminationLength + k]
           # resp[r].termination[k]

(***************************************************************************)
(* C2.  In a mining call the number of salts drawn never exceeds the       *)
(* effective cap: the caller's maxAttempts clamped to the system-wide      *)
(* maximum.  (A call that has drawn nothing exceeds no cap.)               *)
(***************************************************************************)
C2_DrawsWithinCap ==
  \A r \in Requests :
    (Searched(r) /\ draws[r] > 0) =>
      /\ ~CapInForce(r).nan
      /\ Whole(draws[r]) <= CapInForce(r).halves

(***************************************************************************)
(* C3.  The attempts field of every mining result is at least 1, at most   *)
(* the cap in force for the call, and is the number of salts the call      *)
(* drew, the matching one included.                                        *)
(***************************************************************************)
C3_AttemptsAccounted ==
  \A r \in Requests :
    IsMiningResult(r) =>
      /\ resp[r].attempts >= 1
      /\ Whole(resp[r].attempts) <= CapInForce(r).halves
      /\ resp[r].attempts = draws[r]

(***************************************************************************)
(* C4.  When a mining call fails with SearchExhausted, the attempts it     *)
(* made are exactly the cap in force, and the failure reports that number  *)
(* to the caller; for every cap the mining contract accepts, which is a    *)
(* positive integer.                                                       *)
(***************************************************************************)
C4_ExhaustedReportsCap ==
  \A r \in Requests :
    (/\ IsSearchExhausted(r)
     /\ ~CapInForce(r).nan
     /\ CapInForce(r).halves > 0
     /\ CapInForce(r).halves % 2 = 0)
      => /\ Whole(draws[r]) = CapInForce(r).halves
         /\ "attempts" \in DOMAIN resp[r]
         /\ resp[r].attempts = draws[r]

(***************************************************************************)
(* C5.  First hit wins: a call returns at the first drawn salt whose       *)
(* address ends with the termination.  The salts drawn before the returned *)
(* one did not match, none is drawn after a match, and a call has at most  *)
(* one result.                                                             *)
(***************************************************************************)
C5_FirstHitWinsState ==
  \A r \in Requests :
    /\ hits[r] <= 1
    /\ hits[r] = 1 <=> IsMiningResult(r)
    /\ IsMiningResult(r) =>
         /\ st[r] = "done"
         /\ draws[r] = resp[r].attempts
         /\ ~Derived[body[r].deployerAddress, resp[r].salt, body[r].bytecodeHash].threw
         /\ resp[r].address =
              Derived[body[r].deployerAddress, resp[r].salt, body[r].bytecodeHash].address
         /\ SuffixIs(resp[r].address, termination[r])

\* Once a call has its result, no step draws a salt for it or changes the result.
C5_FirstHitWinsStep ==
  \A r \in Requests :
    IsMiningResult(r) => (draws'[r] = draws[r] /\ resp'[r] = resp[r] /\ hits'[r] = hits[r])

C5_FirstHitWins == [](C5_FirstHitWinsState) /\ [][C5_FirstHitWinsStep]_vars

\* A result returned at a second or later draw: the salts before it missed.
C5_Witness ==
  \E r \in Requests : IsMiningResult(r) /\ resp[r].attempts >= 2 /\ hits[r] = 1

(***************************************************************************)
(* The termination shape, stated on the string itself.                     *)
(***************************************************************************)
\* The request's termination is a string.
HasStringTermination(r) == body[r].termination.type = "string"

\* The string, once normalized, is empty, longer than 8, or holds a
\* character outside 0-9a-f.
FailsShape(chars) ==
  LET cleaned == CleanTermination(chars)
  IN  \/ Len(cleaned) = 0
      \/ Len(cleaned) > MaxTerminationLength
      \/ \E k \in 1..Len(cleaned) : cleaned[k] \notin HexLower

\* The response is a difficulty report (not an error response).
IsReport(r) == IsValidate(r) /\ resp[r].status = 200

(***************************************************************************)
(* C6 as claimed.  A termination string that fails the shape once          *)
(* normalized always gets an InvalidInput error, from /calculate-address   *)
(* and from /validate-termination alike.                                   *)
(***************************************************************************)
C6_InvalidInputFromBoth ==
  \A r \in Requests :
    (Answered(r) /\ HasStringTermination(r) /\ FailsShape(body[r].termination.chars))
      => IsInvalidInput(r)

(***************************************************************************)
(* C6 as amended.  Such a termination always gets an InvalidInput error    *)
(* from /calculate-address, with no search made.  /validate-termination    *)
(* answers InvalidInput only when the string itself is empty; otherwise it *)
(* returns a report marked invalid (valid false, difficulty and time       *)
(* Unknown), never a report marked valid.                                  *)
(***************************************************************************)
C6_InvalidTerminationRefused ==
  \A r \in Requests :
    (Answered(r) /\ HasStringTermination(r) /\ FailsShape(body[r].termination.chars))
      => /\ IsCalculate(r) => (IsInvalidInput(r) /\ draws[r] = 0)
         /\ IsValidate(r) =>
              IF body[r].termination.chars = <<>>
                THEN IsInvalidInput(r)
                ELSE /\ IsReport(r)
                     /\ resp[r].valid = FALSE
                     /\ resp[r].difficulty = "Unknown"
                     /\ resp[r].estimatedTime = "Unknown"
                     /\ resp[r].cleaned = CleanTermination(body[r].termination.chars)

\* Both routes have answered a nine-digit termination: the search route with
\* all its fields present, the report route with a report.
C6_Witness ==
  \E r, q \in Requests :
    /\ IsCalculate(r) /\ Answered(r) /\ IsValidate(q) /\ Answered(q)
    /\ ~Falsy(body[r].deployerAddress) /\ ~Falsy(body[r].bytecodeHash)
    /\ HasStringTermination(r) /\ Len(CleanTermination(body[r].termination.chars)) > MaxTerminationLength
    /\ HasStringTermination(q) /\ FailsShape(body[q].termination.chars)
    /\ body[q].termination.chars # <<>>

(***************************************************************************)
(* C7.  A termination that fails the shape is rejected before the search:  *)
(* no salt is drawn and no address derived for its request, which never    *)
(* enters the loop; and every call in the loop runs with a termination of  *)
(* 1 to 8 lower-case hex characters.                                       *)
(***************************************************************************)
C7_RejectedBeforeSearch ==
  \A r \in Requests :
    /\ (IsCalculate(r) /\ (~HasStringTermination(r) \/ FailsShape(body[r].termination.chars)))
         => /\ draws[r] = 0 /\ hits[r] = 0 /\ attempts[r] = 0
            /\ st[r] \in ArrivalStates \cup {"done"}
            /\ Answered(r) => (~resp[r].success /\ ~IsSearchExhausted(r))
    /\ st[r] \in {"running", "yielded"}
         => /\ Len(termination[r]) \in 1..MaxTerminationLength
            /\ \A k \in 1..Len(termination[r]) : termination[r][k] \in HexLower

\* A request with deployer and hash present, turned down for its termination
\* alone, while another call is in the search.
C7_Witness ==
  \E r, q \in Requests :
    /\ IsCalculate(r) /\ Answered(r)
    /\ resp[r] = BadRequest(InvalidTerminationMessage)
    /\ draws[r] = 0
    /\ st[q] = "running" /\ draws[q] > 0

(***************************************************************************)
(* C8.  A mining call whose client cancels while it runs ends Cancelled,   *)
(* not SearchExhausted, with fewer attempts than the cap, and after the    *)
(* signal it makes no more than one yield batch of attempts.               *)
(***************************************************************************)
\* The outcome of a request in the terms of the error taxonomy.  No response
\* of the server stands for Cancelled.
Outcome(r) ==
  IF ~Answered(r) THEN "none"
  ELSE IF resp[r].status = 200
    THEN (IF IsCalculate(r) THEN "MiningResult" ELSE "DifficultyReport")
  ELSE IF resp[r].status = 400 THEN "InvalidInput"
  ELSE IF resp[r].error = ExhaustedMessage THEN "SearchExhausted"
  ELSE "InternalError"

C8_CancelStopsSearch ==
  \A r \in Requests :
    cancelledAt[r] >= 0 =>
      /\ draws[r] - cancelledAt[r] <= YieldEvery
      /\ st[r] = "done" =>
           /\ Outcome(r) = "Cancelled"
           /\ ~CapInForce(r).nan /\ Whole(draws[r]) < CapInForce(r).halves

(***************************************************************************)
(* C9.  The loop yields at a bounded interval: a call never makes more     *)
(* than YieldEvery (1000) attempts in a row without ceding the thread, and *)
(* it yields exactly when its attempt counter reaches a multiple of        *)
(* YieldEvery.                                                             *)
(***************************************************************************)
C9_YieldState ==
  \A r \in Requests :
    /\ sinceYield[r] <= YieldEvery
    /\ yields[r] = attempts[r] \div YieldEvery
    /\ st[r] = "yielded" => (attempts[r] > 0 /\ attempts[r] % YieldEvery = 0)

\* A step cedes the thread by a yield exactly when it brings the counter to a
\* multiple of YieldEvery.
C9_YieldStep ==
  \A r \in Requests :
    (st[r] = "running" /\ st'[r] = "yielded")
      <=> (attempts'[r] = attempts[r] + 1 /\ attempts'[r] % YieldEvery = 0)

C9_YieldsEveryBatch == [](C9_YieldState) /\ [][C9_YieldStep]_vars

\* A call that has yielded and then made a full batch ending in a match.
C9_Witness ==
  \E r \in Requests :
    yields[r] >= 1 /\ sinceYield[r] = YieldEvery /\ IsMiningResult(r)

(***************************************************************************)
(* C10 as claimed.  A search does not starve other work: a request that is *)
(* pending while a mining call runs is handled before the call makes more  *)
(* than one further batch of attempts, that is, within the rest of the     *)
(* batch under way and one batch more.                                     *)
(***************************************************************************)
C10_OneFurtherBatch ==
  \A r, m \in Requests : waited[r][m] <= 2 * YieldEvery

(***************************************************************************)
(* C10 as amended.  A request that is pending while a mining call runs is  *)
(* handled before the call makes more than one further batch of attempts   *)
(* beyond the batch under way when it came on an open connection, and more *)
(* than two further batches, and one more for each connection queued ahead *)
(* of its own, when it came on a new connection (the loop accepts one      *)
(* connection in a poll phase and reads the request in a later one, with a *)
(* batch of every yielded search between two poll phases); and under a     *)
(* fair event loop it is handled.                                          *)
(***************************************************************************)
C10_BoundedWait ==
  \A r, m \in Requests : waited[r][m] <= (3 + ahead[r]) * YieldEvery

C10_NoStarvation ==
  /\ [](C10_BoundedWait)
  /\ \A r \in Requests : IsWaiting(r) ~> ~IsWaiting(r)

\* A request that came on a new connection with the connection of another
\* request queued ahead of its own is picked up by the poll phase after more
\* than three batches of the mining call it waited through, which has yielded
\* with attempts still to make.
C10_Witness ==
  \E r, m \in Requests :
    /\ st[r] = "arrived" /\ r \in ready /\ ahead[r] = 1
    /\ st[m] = "yielded" /\ LessThan(attempts[m], maxAttempts[m])
    /\ waited[r][m] > 3 * YieldEvery

\* The locals and the response of call r and its count of salts drawn.
OwnState(r) ==
  <<termination[r], maxAttempts[r], attempts[r], resp[r], draws[r], solo[r]>>

(***************************************************************************)
(* C11.  Concurrent searches are isolated.  However the calls interleave   *)
(* at their yield points, the termination, the cap and the attempt counter *)
(* of every mining call, and its response once it has ended, are those of  *)
(* the same call run alone with the same salts; and no step changes the    *)
(* state of two calls, nor the state of a call other than the one that     *)
(* holds the thread.                                                       *)
(***************************************************************************)
C11_SameAsAlone ==
  \A r \in Requests :
    IsCalculate(r) =>
      /\ termination[r] = solo[r].termination
      /\ maxAttempts[r] = solo[r].maxAttempts
      /\ attempts[r] = solo[r].attempts
      /\ st[r] \in {"running", "yielded"} => solo[r].resp = NoResponse
      /\ st[r] = "done" =>
           /\ resp[r] = SoloResponse(solo[r])
           /\ solo[r].resp = NoResponse =>
                ~LessThan(solo[r].attempts, solo[r].maxAttempts)

C11_OwnStateOnly ==
  \A r \in Requests :
    /\ (running # 0 /\ running # r) => OwnState(r)' = OwnState(r)
    /\ \A q \in Requests \ {r} :
         OwnState(r)' = OwnState(r) \/ OwnState(q)' = OwnState(q)

C11_Isolated == [](C11_SameAsAlone) /\ [][C11_OwnStateOnly]_vars

\* Two searches have interleaved: each ceded the thread and ran again, one
\* ended with a match and the other at its cap, with different counts.
C11_Witness ==
  \E r \in Requests : \E q \in Requests \ {r} :
    /\ Searched(r) /\ Searched(q)
    /\ yields[r] >= 1 /\ yields[q] >= 1
    /\ IsMiningResult(r) /\ IsSearchExhausted(q)
    /\ attempts[r] # attempts[q]
    /\ termination[r] # termination[q]

(***************************************************************************)
(* C12.  Every mining call eventually terminates with exactly one of a     *)
(* MiningResult or SearchExhausted, provided the event loop keeps running  *)
(* (every scheduled resumption eventually runs), whatever maxAttempts the  *)
(* caller sent, values above the system-wide maximum included.             *)
(***************************************************************************)
C12_MiningTerminates ==
  \A r \in Requests :
    Searched(r) ~>
      (st[r] = "done" /\ Outcome(r) \in {"MiningResult", "SearchExhausted"})

\* The value is a hex string, of a number of bytes other than n.
IsWrongWidth(v, n) == v.type = "hex" /\ v.bytes # n

\* The body of request r carries a termination that passes the validation and
\* a deployer that is not 20 bytes or an init-code hash that is not 32 bytes.
HasMalformedWidth(r) ==
  /\ IsCalculate(r)
  /\ ~Falsy(body[r].deployerAddress) /\ ~Falsy(body[r].bytecodeHash)
  /\ HasStringTermination(r) /\ ~FailsShape(body[r].termination.chars)
  /\ \/ IsWrongWidth(body[r].deployerAddress, DeployerBytes)
     \/ IsWrongWidth(body[r].bytecodeHash, HashBytes)

(***************************************************************************)
(* C13.  Address derivation rejects malformed fixed-width inputs.  A       *)
(* mining call whose deployer is not 20 bytes, or whose init-code hash is  *)
(* not 32 bytes, fails with InvalidInput, and no address is ever derived   *)
(* for it: no attempt is counted and no result is returned.                *)
(***************************************************************************)
C13_MalformedWidthRejected ==
  \A r \in Requests :
    HasMalformedWidth(r) =>
      /\ attempts[r] = 0
      /\ Answered(r) => IsInvalidInput(r)

\* The report of request r says its termination is valid.
IsValidReport(r) == IsReport(r) /\ resp[r].valid

\* The tier and the time estimate that the thresholds on 16^L = 2^(4L)
\* select: 2^(4L) < 2^e exactly when 4L < e.
TierOfLength(L) ==
  IF 4 * L < 8 THEN <<"Very Easy", "Instant">>
  ELSE IF 4 * L < 12 THEN <<"Easy", "Few seconds">>
  ELSE IF 4 * L < 16 THEN <<"Medium", "Few minutes">>
  ELSE IF 4 * L < 20 THEN <<"Hard", "Few hours">>
  ELSE <<"Very Hard", "Days or weeks">>

(***************************************************************************)
(* C14.  For every valid normalized termination, of length L in 1..8, the  *)
(* report's tier and time estimate are those selected by the thresholds on *)
(* 16^L: below 2^8 Very Easy/Instant, below 2^12 Easy, below 2^16 Medium,  *)
(* below 2^20 Hard, otherwise Very Hard; they depend on L alone.           *)
(***************************************************************************)
C14_TierByThresholds ==
  \A r \in Requests :
    IsValidReport(r) =>
      /\ Len(resp[r].cleaned) \in 1..MaxTerminationLength
      /\ <<resp[r].difficulty, resp[r].estimatedTime>> =
           TierOfLength(Len(resp[r].cleaned))

\* Two reports at either side of a threshold: 16^2 = 2^8 is Easy and
\* 16^1 is Very Easy, for terminations written with characters to strip.
C14_Witness ==
  /\ IsValidReport(1) /\ IsValidReport(2)
  /\ Len(resp[1].cleaned) = 2 /\ resp[1].difficulty = "Easy"
  /\ Len(body[1].termination.chars) > 2
  /\ Len(resp[2].cleaned) = 1 /\ resp[2].difficulty = "Very Easy"

\* The place of a tier in the order Very Easy < Easy < Medium < Hard <
\* Very Hard.
TierRank(tier) ==
  CASE tier = "Very Easy" -> 1
    [] tier = "Easy" -> 2
    [] tier = "Medium" -> 3
    [] tier = "Hard" -> 4
    [] tier = "Very Hard" -> 5

(***************************************************************************)
(* C15.  Difficulty is monotone in length: of two valid terminations, the  *)
(* longer one is never reported a lower tier than the shorter one, in the  *)
(* order Very Easy < Easy < Medium < Hard < Very Hard.                     *)
(***************************************************************************)
C15_MonotoneInLength ==
  \A r, q \in Requests :
    (IsValidReport(r) /\ IsValidReport(q)
       /\ Len(resp[r].cleaned) < Len(resp[q].cleaned))
      => TierRank(resp[r].difficulty) <= TierRank(resp[q].difficulty)

\* Two valid reports, for lengths 3 and 4, with tiers that differ.
C15_Witness ==
  \E r, q \in Requests :
    /\ IsValidReport(r) /\ IsValidReport(q)
    /\ Len(resp[r].cleaned) = 3 /\ Len(resp[q].cleaned) = 4
    /\ TierRank(resp[r].difficulty) < TierRank(resp[q].difficulty)

(***************************************************************************)
(* C16.  EstimateDifficulty has no error conditions: every termination     *)
(* string, the empty one and one of invalid characters only included, gets *)
(* a report, marked invalid when the string fails the shape, and never an  *)
(* error response.                                                         *)
(***************************************************************************)
C16_AlwaysReports ==
  \A r \in Requests :
    (IsValidate(r) /\ Answered(r) /\ HasStringTermination(r)) =>
      /\ IsReport(r)
      /\ FailsShape(body[r].termination.chars) => resp[r].valid = FALSE

\* The character is a hex digit, in either case.
IsHexDigit(c) == LowerChar(c) \in HexLower

\* The normalized value of a raw string as the claim words it: the
\* characters that are not hex digits are dropped, the rest is lower-cased.
Normalized(raw) == ToLowerCase(SelectSeq(raw, IsHexDigit))

\* The string has only the characters 0-9a-f.
OnlyLowerHex(s) == \A k \in 1..Len(s) : s[k] \in HexLower

(***************************************************************************)
(* C17.  Normalization strips every non-hex character and lower-cases the  *)
(* rest, before validation.  For every raw string, the cleaned value that  *)
(* a report carries, that a search matches against, and that a mining      *)
(* result reports back is that normalized value; it has only characters    *)
(* 0-9a-f, and normalizing it again leaves it as it is.                    *)
(***************************************************************************)
C17_Normalized ==
  \A r \in Requests :
    HasStringTermination(r) =>
      LET raw == body[r].termination.chars
      IN  /\ IsReport(r) =>
                /\ resp[r].cleaned = Normalized(raw)
                /\ OnlyLowerHex(resp[r].cleaned)
                /\ CleanTermination(resp[r].cleaned) = resp[r].cleaned
          /\ Searched(r) =>
                /\ termination[r] = Normalized(raw)
                /\ OnlyLowerHex(termination[r])
                /\ CleanTermination(termination[r]) = termination[r]
          /\ IsMiningResult(r) =>
                /\ resp[r].termination = Normalized(raw)
                /\ SuffixIs(resp[r].address, Normalized(raw))

\* A report and a mining result for strings with upper-case digits and with
\* characters to strip, the result's after its search ceded the thread.
C17_Witness ==
  \E r, q \in Requests :
    /\ IsReport(r) /\ IsMiningResult(q) /\ yields[q] >= 1
    /\ Len(resp[r].cleaned) < Len(body[r].termination.chars)
    /\ resp[r].cleaned # <<>>
    /\ ToLowerCase(body[r].termination.chars) # body[r].termination.chars
    /\ Len(resp[q].termination) < Len(body[q].termination.chars)
    /\ ToLowerCase(body[q].termination.chars) # body[q].termination.chars

\* The call of request q has entered findSaltForTermination: its local
\* `termination` is set.
InSearch(q) == termination[q] # <<>>

\* Request r asked /validate-termination and request q /calculate-address,
\* with a deployer and a hash, for the same raw string; both were handled.
SameRawString(r, q) ==
  /\ IsValidate(r) /\ Answered(r)
  /\ IsCalculate(q) /\ st[q] \in {"running", "yielded", "done"}
  /\ ~Falsy(body[q].deployerAddress) /\ ~Falsy(body[q].bytecodeHash)
  /\ HasStringTermination(r)
  /\ body[q].termination = body[r].termination

(***************************************************************************)
(* C19.  The two endpoints agree on validity.  For every raw termination   *)
(* string, /validate-termination reports valid = true if and only if       *)
(* /calculate-address, given the same string with a deployer and a hash,   *)
(* passes the validation and starts a search; and the search runs with,    *)
(* and its result reports, the cleaned termination of the report.          *)
(***************************************************************************)
C19_EndpointsAgree ==
  \A r, q \in Requests :
    SameRawString(r, q) =>
      /\ IsValidReport(r) <=> InSearch(q)
      /\ InSearch(q) => termination[q] = resp[r].cleaned
      /\ IsMiningResult(q) => resp[q].termination = resp[r].cleaned

\* Both routes took the same string of eight digits and a character to
\* strip: the report says valid and the search found a salt.
C19_Witness ==
  \E r, q \in Requests :
    /\ SameRawString(r, q)
    /\ Len(body[r].termination.chars) > MaxTerminationLength
    /\ IsValidReport(r) /\ Len(resp[r].cleaned) = MaxTerminationLength
    /\ IsMiningResult(q)

=============================================================================
